---- MODULE Spec2Model ----
(***************************************************************************)
(* Model of Dynamic_XML_Parser.py: split_syteline_objects, the splitter of *)
(* a SyteLine export document into one XML file per item.                  *)
(*                                                                         *)
(* Strings the code inspects character by character (the Name attribute,  *)
(* element text) are sequences of one-character strings.  Tags, which the *)
(* code only compares for equality, are TLA+ strings.  An element is a     *)
(* record [id, tag, attrib, text, children]: id is the identity of the     *)
(* Python object, attrib a set of <<key, value>> pairs with distinct keys, *)
(* text the element's text (None and "" are both falsy for line 76 and     *)
(* are both <<>> here; a parsed tree holds None, never ""), children a     *)
(* sequence of elements.                                                   *)
(***************************************************************************)
EXTENDS Integers, Sequences, FiniteSets, TLC

(***************************************************************************)
(* Bounds of the model.                                                    *)
(***************************************************************************)
\* items of the whole input document
MaxItems == 2
\* characters of a Name attribute in the sanitization inputs
MaxNameLen == 2

(***************************************************************************)
(* Elements.                                                               *)
(***************************************************************************)
NoElement == [id |-> 0, tag |-> "", attrib |-> {}, text |-> <<>>, children |-> <<>>]

Element(id, tag, attrib, text, children) ==
    [id |-> id, tag |-> tag, attrib |-> attrib, text |-> text, children |-> children]

\* dict.get(key, default)
AttribGet(attrib, key, default) ==
    IF \E p \in attrib : p[1] = key
    THEN (CHOOSE p \in attrib : p[1] = key)[2]
    ELSE default

\* Element.find(tag): the first direct child with that tag, or None
Find(el, tag) ==
    IF \E k \in 1..Len(el.children) : el.children[k].tag = tag
    THEN el.children[CHOOSE k \in 1..Len(el.children) :
                        /\ el.children[k].tag = tag
                        /\ \A m \in 1..(k - 1) : el.children[m].tag # tag]
    ELSE NoElement

\* Element.findall(tag): the direct children with that tag, in document order
SameTag(tag, el) == el.tag = tag

\* (a faulty variant: only the first match, as find would give)
FindAllFirstOnly(el, tag) ==
    IF \E k \in 1..Len(el.children) : el.children[k].tag = tag
    THEN << Find(el, tag) >>
    ELSE <<>>

FindAll(el, tag) == SelectSeq(el.children, LAMBDA c : SameTag(tag, c))

\* the identities of an element and of everything below it
RECURSIVE Ids(_)
Ids(el) ==
    {el.id} \cup UNION {Ids(el.children[k]) : k \in 1..Len(el.children)}

\* an element without the identities of its nodes: what a serialized file holds
RECURSIVE Strip(_)
Strip(el) ==
    [tag |-> el.tag, attrib |-> el.attrib, text |-> el.text,
     children |-> [k \in 1..Len(el.children) |-> Strip(el.children[k])]]

\* copy.deepcopy(el): the same tags, attributes, text and children in new
\* objects; the copy of the node at preorder position p gets identity base + p
RECURSIVE Size(_)
Size(el) ==
    LET RECURSIVE Sum(_)
        Sum(k) == IF k = 0 THEN 0 ELSE Sum(k - 1) + Size(el.children[k])
    IN  1 + Sum(Len(el.children))

\* (a faulty variant: the element itself, not a copy)
DeepCopyAliased(el, base) == el

RECURSIVE DeepCopy(_, _)
DeepCopy(el, base) ==
    LET RECURSIVE Before(_)
        Before(k) == IF k = 1 THEN 1 ELSE Before(k - 1) + Size(el.children[k - 1])
    IN  [id |-> base, tag |-> el.tag, attrib |-> el.attrib, text |-> el.text,
         children |-> [k \in 1..Len(el.children) |->
                          DeepCopy(el.children[k], base + Before(k))]]

(***************************************************************************)
(* Strings.                                                                *)
(***************************************************************************)
UnnamedItem == <<"U", "n", "n", "a", "m", "e", "d", "I", "t", "e", "m">>

\* the character class of the regular expression of line 83
Forbidden == {"\\", "/", "*", "?", ":", "\"", "<", ">", "|"}

\* (faulty variants: a character class without the separators;
\* only the first match replaced, as with count=1)
RECURSIVE SubNoSlash(_)
SubNoSlash(name) ==
    IF name = <<>> THEN <<>>
    ELSE <<IF Head(name) \in Forbidden \ {"/", "\\"} THEN "_" ELSE Head(name)>>
            \o SubNoSlash(Tail(name))

RECURSIVE SubFirstOnly(_)
SubFirstOnly(name) ==
    IF name = <<>> THEN <<>>
    ELSE IF Head(name) \in Forbidden THEN <<"_">> \o Tail(name)
         ELSE <<Head(name)>> \o SubFirstOnly(Tail(name))

\* re.sub(r'[\\/*?:"<>|]', '_', name), scanning the name left to right

RECURSIVE Sub(_)
Sub(name) ==
    IF name = <<>> THEN <<>>
    ELSE <<IF Head(name) \in Forbidden THEN "_" ELSE Head(name)>> \o Sub(Tail(name))

\* str.strip(): leading and trailing whitespace removed
Whitespace == {" ", "\n", "\t"}

RECURSIVE LStrip(_)
LStrip(s) ==
    IF s # <<>> /\ Head(s) \in Whitespace THEN LStrip(Tail(s)) ELSE s

RECURSIVE RStrip(_)
RStrip(s) ==
    IF s # <<>> /\ s[Len(s)] \in Whitespace
    THEN RStrip(SubSeq(s, 1, Len(s) - 1))
    ELSE s

StripText(s) == RStrip(LStrip(s))

\* the set literal of line 78
ExcludedValues ==
    { <<"C", "o", "r", "e">>,
      <<"B", "a", "s", "e", "S", "y", "t", "e", "L", "i", "n", "e">> }

(***************************************************************************)
(* Paths and the file system.                                              *)
(*                                                                         *)
(* A path is [anchor, dir, segs]: anchor "base" is base_output_directory,  *)
(* dir the item-tag subdirectory below it ("" for none) and segs the       *)
(* segments below that, each a string of characters.  os.path.join drops   *)
(* the directory when the joined name is rooted or carries a drive; the    *)
(* base directory of line 108 is a Windows path, where both slashes        *)
(* separate segments.                                                      *)
(***************************************************************************)
Seps == {"/", "\\"}

XmlSuffix == <<".", "x", "m", "l">>

RECURSIVE SplitAcc(_, _, _)
SplitAcc(s, cur, acc) ==
    IF s = <<>> THEN (IF cur = <<>> THEN acc ELSE Append(acc, cur))
    ELSE IF Head(s) \in Seps
         THEN SplitAcc(Tail(s), <<>>, IF cur = <<>> THEN acc ELSE Append(acc, cur))
         ELSE SplitAcc(Tail(s), Append(cur, Head(s)), acc)

\* the segments of a relative name
Segments(name) == SplitAcc(name, <<>>, <<>>)

BaseDir == [anchor |-> "base", dir |-> "", segs |-> <<>>]

\* os.path.join(base_output_directory, subdirectory_name)
SubDir(item_tag) == [anchor |-> "base", dir |-> item_tag, segs |-> <<>>]

\* os.path.join(output_directory, name)
PathJoin(directory, name) ==
    IF Len(name) >= 2 /\ name[2] = ":"
    THEN [anchor |-> "drive", dir |-> "", segs |-> Segments(name)]
    ELSE IF name # <<>> /\ Head(name) \in Seps
         THEN [anchor |-> "root", dir |-> "", segs |-> Segments(name)]
         ELSE [directory EXCEPT !.segs = directory.segs \o Segments(name)]

\* the directory a file path lies in
ParentDir(path) == [path EXCEPT !.segs = SubSeq(path.segs, 1, Len(path.segs) - 1)]

\* what a file holds: a whole serialized document, or the start of one
WholeFile(root) == [complete |-> TRUE, root |-> Strip(root)]

TruncatedFile == [complete |-> FALSE, root |-> Strip(NoElement)]

\* (a faulty variant: an existing file is kept)
StoreKeepFirst(fileMap, path, content) ==
    [p \in (DOMAIN fileMap) \cup {path} |->
        IF p \in DOMAIN fileMap THEN fileMap[p] ELSE content]

\* open(path, "wb") and write: the file holds content, whatever it held
Store(fileMap, path, content) ==
    [p \in (DOMAIN fileMap) \cup {path} |-> IF p = path THEN content ELSE fileMap[p]]

(***************************************************************************)
(* Input documents and mappings.                                           *)
(***************************************************************************)
Core == <<"C", "o", "r", "e">>

BaseSyteLine == <<"B", "a", "s", "e", "S", "y", "t", "e", "L", "i", "n", "e">>

Custom == <<"C", "u", "s", "t", "o", "m">>

NameAttr(n) == {<<"Name", n>>}

Kid(tag, text) == [tag |-> tag, text |-> text]

\* the item tag an export keeps in a container
ItemTagOf(container_tag) ==
    IF container_tag = "Forms" THEN "Form" ELSE "IDODefinition"

PosChar(p) == <<"a", "b", "c", "d", "e", "f">>[p]

\* An item of the input: shape.tag "" stands for the item tag of its
\* container; with numbered, the Name is the item's position in the document.
MkItem(id, container_tag, shape, numbered, pos) ==
    Element(id,
            IF shape.tag = "" THEN ItemTagOf(container_tag) ELSE shape.tag,
            IF numbered THEN NameAttr(<<PosChar(pos)>>) ELSE shape.attrib,
            <<>>,
            [m \in 1..Len(shape.kids) |->
                Element(id + m, shape.kids[m].tag, {}, shape.kids[m].text, <<>>)])

\* A document whose containers have the tags of layout; the first container
\* holds the first split shapes, the last container the others.
MkDoc(layout, shapes, split, numbered) ==
    Element(1, "FormsAndObjectsExport", {<<"Version", <<"0", "1">>>>}, <<>>,
        [c \in 1..Len(layout) |->
            LET from == IF c = 1 THEN 0 ELSE split
                upto == IF c = 1 /\ Len(layout) > 1 THEN split ELSE Len(shapes)
            IN  Element(1 + c, layout[c],
                        {<<"Type", <<IF c = 1 THEN "1" ELSE "2">>>>}, <<>>,
                        [k \in 1..(upto - from) |->
                            MkItem(100 * c + 10 * k, layout[c],
                                   shapes[from + k], numbered, from + k)])])

SeqsUpTo(S, n) == UNION {[1..k -> S] : k \in 0..n}

Docs(layouts, pool, n, numbered) ==
    { MkDoc(in[1], in[2], in[3], numbered) :
        in \in { x \in layouts \X SeqsUpTo(pool, n) \X (0..n) :
                    /\ x[3] <= Len(x[2])
                    /\ Len(x[1]) < 2 => x[3] = Len(x[2])
                    /\ Len(x[1]) = 0 => x[2] = <<>> } }

Entry(item_tag, container_tag) ==
    [item_tag |-> item_tag, container_tag |-> container_tag]

\* the order of the map of lines 111-123, with a container no document has
MapMissingBetween ==
    <<Entry("Form", "Forms"), Entry("Script", "Scripts"),
      Entry("IDODefinition", "IDODefinitions")>>

\* another order, with an entry whose container holds no such item
MapNoItems ==
    <<Entry("IDODefinition", "IDODefinitions"), Entry("Theme", "Forms"),
      Entry("Form", "Forms")>>

MapAll ==
    <<Entry("Form", "Forms"), Entry("Script", "Scripts"), Entry("Theme", "Forms"),
      Entry("IDODefinition", "IDODefinitions")>>

\* names and collisions: every presence of Name, names that differ only in
\* a forbidden character, an item of another tag
NamePool ==
    { [tag |-> "", attrib |-> a, kids |-> <<>>] :
        a \in { {}, NameAttr(<<>>), NameAttr(<<"/">>), NameAttr(<<"_">>) } }
    \cup { [tag |-> "", attrib |-> a, kids |-> <<Kid("AccessAs", Core)>>] :
        a \in { {}, NameAttr(<<"/">>) } }
    \cup { [tag |-> "Other", attrib |-> NameAttr(<<"_">>), kids |-> <<>>] }

NameInputs ==
    Docs({ <<"Forms", "IDODefinitions">>, <<"IDODefinitions", "Forms">>,
           <<"Forms", "Forms">>, <<"IDODefinitions">>, <<>> },
         NamePool, MaxItems, FALSE)
    \X {MapMissingBetween, MapNoItems}

\* the AccessAs field: absent, empty, excluded, excluded once trimmed, other
\* values, a second field after the first
AccessPool ==
    { [tag |-> "", attrib |-> {}, kids |-> k] :
        k \in { <<>>,
                <<Kid("AccessAs", <<>>)>>,
                <<Kid("AccessAs", Core)>>,
                <<Kid("AccessAs", <<" ">> \o BaseSyteLine \o <<"\n">>)>>,
                <<Kid("AccessAs", Custom)>>,
                <<Kid("AccessAs", <<" ", " ">>)>>,
                <<Kid("Description", Core), Kid("AccessAs", Custom)>>,
                <<Kid("AccessAs", Custom), Kid("AccessAs", Core)>> } }

AccessInputs ==
    Docs({ <<"IDODefinitions">>, <<"Forms", "IDODefinitions">> },
         AccessPool, MaxItems, TRUE)
    \X {MapMissingBetween}

\* every name of up to MaxNameLen characters, forbidden ones included
NameChars == Forbidden \cup {"A", "_"}

CharInputs ==
    { MkDoc(<<"Forms", "IDODefinitions">>,
            << [tag |-> "", attrib |-> NameAttr(n), kids |-> <<>>],
               [tag |-> "", attrib |-> NameAttr(<<"A">>),
                kids |-> <<Kid("AccessAs", Core)>>] >>,
            1, FALSE) : n \in SeqsUpTo(NameChars, MaxNameLen) }
    \X {MapAll}

Inputs == NameInputs \cup AccessInputs \cup CharInputs

(***************************************************************************)
(* The run of split_syteline_objects.                                      *)
(***************************************************************************)
VARIABLES
    tree,               \* the parsed export document
    items_to_extract,   \* the mapping, in its iteration order
    dirs,               \* the directories that exist below the base
    files,              \* the files that exist: path -> content
    log,                \* what print has written
    exc,                \* the exception that left the function, if any
    pc,                 \* "start", "entry", "items", "done", "aborted"
    top_level_tag, top_level_attrib,
    i,                  \* position of the outer loop in items_to_extract
    items, j,           \* the list of line 56, position of the inner loop
    output_directory, container_attrib,
    item, item_name, safe_item_name, new_root, output_file_path,
    nextId              \* the identity of the next object created

vars ==
    <<tree, items_to_extract, dirs, files, log, exc, pc, top_level_tag,
      top_level_attrib, i, items, j, output_directory, container_attrib,
      item, item_name, safe_item_name, new_root, output_file_path, nextId>>

entryVars == <<items, j, output_directory, container_attrib>>

itemVars == <<item, item_name, safe_item_name, new_root, output_file_path, nextId>>

NoException == [op |-> "", src |-> 0]

\* a line of output; src is the identity of the item the line is about
Line(kind, item_tag, container_tag, name, value, path, src) ==
    [kind |-> kind, item_tag |-> item_tag, container_tag |-> container_tag,
     name |-> name, value |-> value, path |-> path, src |-> src]

Init ==
    /\ \E in \in Inputs : tree = in[1] /\ items_to_extract = in[2]
    /\ dirs = {}
    /\ files = <<>>
    /\ log = <<>>
    /\ exc = NoException
    /\ pc = "start"
    /\ top_level_tag = ""
    /\ top_level_attrib = {}
    /\ i = 0
    /\ items = <<>>
    /\ j = 0
    /\ output_directory = BaseDir
    /\ container_attrib = {}
    /\ item = NoElement
    /\ item_name = <<>>
    /\ safe_item_name = <<>>
    /\ new_root = NoElement
    /\ output_file_path = BaseDir
    /\ nextId = 1000

\* os.makedirs(path, exist_ok=True)
MakeDirs(existing, path) == existing \cup {BaseDir, path}

\* lines 39-47
Start ==
    /\ pc = "start"
    /\ top_level_tag' = tree.tag
    /\ top_level_attrib' = tree.attrib
    /\ dirs' = MakeDirs(dirs, BaseDir)
    /\ i' = 1
    /\ pc' = "entry"
    /\ UNCHANGED <<tree, items_to_extract, files, log, exc, entryVars, itemVars>>

\* line 47, os.makedirs raising
StartFails ==
    /\ pc = "start"
    /\ top_level_tag' = tree.tag
    /\ top_level_attrib' = tree.attrib
    /\ exc' = [op |-> "makedirs", src |-> 0]
    /\ pc' = "aborted"
    /\ UNCHANGED <<tree, items_to_extract, dirs, files, log, i, entryVars, itemVars>>

InEntry == pc = "entry" /\ i <= Len(items_to_extract)

item_tag == items_to_extract[i].item_tag

container_tag == items_to_extract[i].container_tag

\* line 51
container_element == Find(tree, container_tag)

\* (a faulty variant: the loop is left, not continued)
SkipNoContainerReturns ==
    /\ InEntry
    /\ container_element = NoElement
    /\ log' = Append(log, Line("NoContainer", item_tag, container_tag,
                               <<>>, <<>>, BaseDir, 0))
    /\ i' = Len(items_to_extract) + 1
    /\ UNCHANGED <<tree, items_to_extract, dirs, files, exc, pc, top_level_tag,
                   top_level_attrib, entryVars, itemVars>>

\* lines 50-54
SkipNoContainer ==
    /\ InEntry
    /\ container_element = NoElement
    /\ log' = Append(log, Line("NoContainer", item_tag, container_tag,
                               <<>>, <<>>, BaseDir, 0))
    /\ i' = i + 1
    /\ UNCHANGED <<tree, items_to_extract, dirs, files, exc, pc, top_level_tag,
                   top_level_attrib, entryVars, itemVars>>

\* lines 50-59
SkipNoItems ==
    /\ InEntry
    /\ container_element # NoElement
    /\ FindAll(container_element, item_tag) = <<>>
    /\ log' = Append(log, Line("NoItems", item_tag, container_tag,
                               <<>>, <<>>, BaseDir, 0))
    /\ i' = i + 1
    /\ UNCHANGED <<tree, items_to_extract, dirs, files, exc, pc, top_level_tag,
                   top_level_attrib, entryVars, itemVars>>

\* lines 50-68
EnterContainer ==
    /\ InEntry
    /\ container_element # NoElement
    /\ FindAll(container_element, item_tag) # <<>>
    /\ items' = FindAll(container_element, item_tag)
    /\ output_directory' = SubDir(item_tag)
    /\ dirs' = MakeDirs(dirs, SubDir(item_tag))
    /\ container_attrib' = container_element.attrib
    /\ j' = 1
    /\ pc' = "items"
    /\ UNCHANGED <<tree, items_to_extract, files, log, exc, top_level_tag,
                   top_level_attrib, i, itemVars>>

\* line 65, os.makedirs raising
EnterContainerFails ==
    /\ InEntry
    /\ container_element # NoElement
    /\ FindAll(container_element, item_tag) # <<>>
    /\ items' = FindAll(container_element, item_tag)
    /\ output_directory' = SubDir(item_tag)
    /\ exc' = [op |-> "makedirs", src |-> 0]
    /\ pc' = "aborted"
    /\ UNCHANGED <<tree, items_to_extract, dirs, files, log, top_level_tag,
                   top_level_attrib, i, j, container_attrib, itemVars>>

\* the for statement of line 50, exhausted
Finish ==
    /\ pc = "entry"
    /\ i > Len(items_to_extract)
    /\ pc' = "done"
    /\ UNCHANGED <<tree, items_to_extract, dirs, files, log, exc, top_level_tag,
                   top_level_attrib, i, entryVars, itemVars>>

InItems == pc = "items" /\ j <= Len(items)

\* line 71
NameOf(it) == AttribGet(it.attrib, "Name", UnnamedItem)

\* (a faulty variant: the text compared as it is, not trimmed)
ExcludedNoStrip(ctag, it) ==
    /\ ctag = "IDODefinitions"
    /\ Find(it, "AccessAs") # NoElement
    /\ Find(it, "AccessAs").text \in ExcludedValues

\* lines 74-80: the item is skipped
Excluded(ctag, it) ==
    /\ ctag = "IDODefinitions"
    /\ Find(it, "AccessAs") # NoElement
    /\ Find(it, "AccessAs").text # <<>>
    /\ StripText(Find(it, "AccessAs").text) \in ExcludedValues

\* lines 70-80, reaching continue
SkipExcluded ==
    /\ InItems
    /\ Excluded(container_tag, items[j])
    /\ item' = items[j]
    /\ item_name' = NameOf(items[j])
    /\ log' = Append(log, Line("Skipping", item_tag, container_tag, NameOf(items[j]),
                               StripText(Find(items[j], "AccessAs").text),
                               BaseDir, items[j].id))
    /\ j' = j + 1
    /\ UNCHANGED <<tree, items_to_extract, dirs, files, exc, pc, top_level_tag,
                   top_level_attrib, i, items, output_directory, container_attrib,
                   safe_item_name, new_root, output_file_path, nextId>>

\* (a faulty variant: the container without its attributes)
NewRootBareContainer(it, id) ==
    Element(id, top_level_tag, top_level_attrib, <<>>,
            << Element(id + 1, container_tag, {}, <<>>,
                       << DeepCopy(it, id + 2) >>) >>)

\* lines 86-88
NewRoot(it, id) ==
    Element(id, top_level_tag, top_level_attrib, <<>>,
            << Element(id + 1, container_tag, container_attrib, <<>>,
                       << DeepCopy(it, id + 2) >>) >>)

\* line 91
OutputFilePath(it) == PathJoin(output_directory, Sub(NameOf(it)) \o XmlSuffix)

\* open(output_file_path, "wb") succeeds: the directory of the file exists
CanOpen(path) ==
    /\ path.segs # <<>>
    /\ path.anchor = "base" => ParentDir(path) \in dirs
    /\ path.anchor # "base" => Len(path.segs) = 1

\* lines 70-91: the locals of an item that is not skipped
BuildItem ==
    /\ InItems
    /\ ~Excluded(container_tag, items[j])
    /\ item' = items[j]
    /\ item_name' = NameOf(items[j])
    /\ safe_item_name' = Sub(NameOf(items[j]))
    /\ new_root' = NewRoot(items[j], nextId)
    /\ nextId' = nextId + 2 + Size(items[j])
    /\ output_file_path' = OutputFilePath(items[j])

\* lines 70-97
WriteItem ==
    /\ BuildItem
    /\ CanOpen(output_file_path')
    /\ files' = Store(files, output_file_path', WholeFile(new_root'))
    /\ log' = Append(log, Line("Created", item_tag, container_tag, <<>>, <<>>,
                               output_file_path', items[j].id))
    /\ j' = j + 1
    /\ UNCHANGED <<tree, items_to_extract, dirs, exc, pc, top_level_tag,
                   top_level_attrib, i, items, output_directory, container_attrib>>

\* lines 70-95, the file cannot be opened: write raises
WriteFailsOpen ==
    /\ BuildItem
    /\ exc' = [op |-> "write", src |-> items[j].id]
    /\ pc' = "aborted"
    /\ UNCHANGED <<tree, items_to_extract, dirs, files, log, top_level_tag,
                   top_level_attrib, i, items, j, output_directory, container_attrib>>

\* lines 70-95, the file is opened and write raises before the end
WriteFailsPartial ==
    /\ BuildItem
    /\ CanOpen(output_file_path')
    /\ files' = Store(files, output_file_path', TruncatedFile)
    /\ exc' = [op |-> "write", src |-> items[j].id]
    /\ pc' = "aborted"
    /\ UNCHANGED <<tree, items_to_extract, dirs, log, top_level_tag,
                   top_level_attrib, i, items, j, output_directory, container_attrib>>

\* the for statement of line 70, exhausted: back to line 50
NextEntry ==
    /\ pc = "items"
    /\ j > Len(items)
    /\ i' = i + 1
    /\ pc' = "entry"
    /\ UNCHANGED <<tree, items_to_extract, dirs, files, log, exc, top_level_tag,
                   top_level_attrib, entryVars, itemVars>>

Next ==
    \/ Start
    \/ StartFails
    \/ SkipNoContainer
    \/ SkipNoItems
    \/ EnterContainer
    \/ EnterContainerFails
    \/ Finish
    \/ SkipExcluded
    \/ WriteItem
    \/ WriteFailsOpen
    \/ WriteFailsPartial
    \/ NextEntry

Spec == Init /\ [][Next]_vars

(***************************************************************************)
(* The properties.  They speak of the document and of a mapping directly:  *)
(* the container of an entry is the first child of the root with the       *)
(* entry's container tag, its items are that container's children with     *)
(* the entry's item tag, in document order.                                *)
(***************************************************************************)
HasContainer(en) ==
    \E k \in 1..Len(tree.children) : tree.children[k].tag = en.container_tag

ContainerOf(en) ==
    tree.children[CHOOSE k \in 1..Len(tree.children) :
        /\ tree.children[k].tag = en.container_tag
        /\ \A m \in 1..(k - 1) : tree.children[m].tag # en.container_tag]

\* positions, in the container of the entry, of the items of the entry
ItemsAt(en) ==
    IF HasContainer(en)
    THEN { k \in 1..Len(ContainerOf(en).children) :
              ContainerOf(en).children[k].tag = en.item_tag }
    ELSE {}

\* every item that mapping m selects, as <<entry, position in its container>>
AllItemsOf(m) == UNION { {<<m[e], k>> : k \in ItemsAt(m[e])} : e \in 1..Len(m) }

AllItems == AllItemsOf(items_to_extract)

ItemAt(x) == ContainerOf(x[1]).children[x[2]]

\* the exclusion rule of the specification: field AccessAs of an item of
\* container IDODefinitions, trimmed, is BaseSyteLine or Core
FirstField(it, field) ==
    CHOOSE k \in 1..Len(it.children) :
        /\ it.children[k].tag = field
        /\ \A m \in 1..(k - 1) : it.children[m].tag # field

RuleExcludes(x) ==
    /\ x[1].container_tag = "IDODefinitions"
    /\ \E k \in 1..Len(ItemAt(x).children) : ItemAt(x).children[k].tag = "AccessAs"
    /\ RStrip(LStrip(ItemAt(x).children[FirstField(ItemAt(x), "AccessAs")].text))
          \in {Core, BaseSyteLine}

NoExclusionApplies == \A x \in AllItems : ~RuleExcludes(x)

SurvivorsOf(m) == { x \in AllItemsOf(m) : ~RuleExcludes(x) }

Survivors == SurvivorsOf(items_to_extract)

\* the name of the file of an item: the Name attribute, or the sentinel
\* without one, each forbidden character replaced by "_"
RawName(it) ==
    IF \E p \in it.attrib : p[1] = "Name"
    THEN (CHOOSE p \in it.attrib : p[1] = "Name")[2]
    ELSE UnnamedItem

SafeName(it) ==
    [k \in 1..Len(RawName(it)) |->
        IF RawName(it)[k] \in {"\\", "/", "*", "?", ":", "\"", "<", ">", "|"}
        THEN "_" ELSE RawName(it)[k]]

\* the path outputRoot/<itemTag>/<sanitizedName>.xml
PathOf(x) ==
    [anchor |-> "base", dir |-> x[1].item_tag,
     segs |-> << SafeName(ItemAt(x)) \o <<".", "x", "m", "l">> >>]

\* the output document of an item: root, container, the item
DocOf(x) ==
    [complete |-> TRUE,
     root |-> [tag |-> tree.tag, attrib |-> tree.attrib, text |-> <<>>,
               children |->
                 << [tag |-> ContainerOf(x[1]).tag,
                     attrib |-> ContainerOf(x[1]).attrib, text |-> <<>>,
                     children |-> << Strip(ItemAt(x)) >>] >>]]

\* the last of the surviving items of its entry that go to its path
IsLastAtPath(x, m) ==
    \A y \in SurvivorsOf(m) :
        (y[1] = x[1] /\ PathOf(y) = PathOf(x)) => y[2] <= x[2]

Created == { k \in 1..Len(log) : log[k].kind = "Created" }

WasWritten(x) == \E k \in Created : log[k].src = ItemAt(x).id

\* C1 as stated: a run over N items, none excluded, creates exactly N
\* output files.
C1_ExactlyNFiles ==
    (pc = "done" /\ NoExclusionApplies)
        => Cardinality(DOMAIN files) = Cardinality(AllItems)

\* C1 (amended): a run that completes over N items, none excluded, writes
\* N times, once per item, and leaves exactly one file per distinct output
\* path outputRoot/<itemTag>/<sanitizedName>.xml of those items.
C1_OneFilePerDistinctPath ==
    (pc = "done" /\ NoExclusionApplies)
        => /\ Cardinality(Created) = Cardinality(AllItems)
           /\ \A x \in AllItems : WasWritten(x)
           /\ DOMAIN files = { PathOf(x) : x \in AllItems }

C1_Witness ==
    /\ pc = "done"
    /\ NoExclusionApplies
    /\ Cardinality(AllItems) = 2
    /\ Cardinality({ x[1] : x \in AllItems }) = 2
    /\ Cardinality(DOMAIN files) = 2

\* C2 as stated: when the write of one item fails, the run goes on: once
\* the run is over every other surviving item, of the same container and
\* of every other entry, has been written.
Terminated == pc \in {"done", "aborted"}

C2_WriteFailureIsolated ==
    (Terminated /\ exc.op = "write")
        => \A x \in Survivors : ItemAt(x).id # exc.src => WasWritten(x)

\* C3: once the run is complete an item has been written if and only if
\* the exclusion rule does not apply to it: its container is not
\* IDODefinitions, or it has no AccessAs field, or the trimmed text of the
\* field is neither BaseSyteLine nor Core; an excluded item is never written.
C3_ExclusionRule ==
    /\ \A x \in AllItems : RuleExcludes(x) => ~WasWritten(x)
    /\ pc = "done" =>
          \A x \in AllItems :
              /\ WasWritten(x) <=> ~RuleExcludes(x)
              /\ ~RuleExcludes(x) => PathOf(x) \in DOMAIN files
              /\ (\A y \in Survivors : PathOf(y) # PathOf(x))
                    => PathOf(x) \notin DOMAIN files

\* an item of IDODefinitions excluded only once its field is trimmed is
\* skipped, an item of Forms whose field is Core is written
C3_Witness ==
    /\ pc = "done"
    /\ \E x \in AllItems :
          /\ RuleExcludes(x)
          /\ ItemAt(x).children[1].text \notin {Core, BaseSyteLine}
          /\ ~WasWritten(x)
    /\ \E x \in AllItems :
          /\ x[1].container_tag = "Forms"
          /\ Len(ItemAt(x).children) = 1
          /\ ItemAt(x).children[1].tag = "AccessAs"
          /\ ItemAt(x).children[1].text = Core
          /\ WasWritten(x)

\* what a complete run over mapping m leaves: one file per path of a
\* surviving item, holding the document of the last item of that path, and
\* one directory per entry that has items
FilesOf(m) ==
    { <<PathOf(x), DocOf(x)>> : x \in { y \in SurvivorsOf(m) : IsLastAtPath(y, m) } }

DirsOf(m) ==
    {BaseDir} \cup { [anchor |-> "base", dir |-> x[1].item_tag, segs |-> <<>>] :
                        x \in AllItemsOf(m) }

FilesNow == { <<p, files[p]>> : p \in DOMAIN files }

EntryPresent(en) == HasContainer(en)

\* C4: an entry whose container the document lacks leaves no file and no
\* directory of its item tag and is reported as skipped, and a complete
\* run leaves the files and directories of the mapping without such entries.
C4_MissingContainer ==
    /\ \A e \in 1..Len(items_to_extract) :
          ~HasContainer(items_to_extract[e]) =>
              /\ \A p \in DOMAIN files : p.dir # items_to_extract[e].item_tag
              /\ \A d \in dirs : d.dir # items_to_extract[e].item_tag
              /\ (pc = "done" \/ i > e) =>
                    \E k \in 1..Len(log) :
                        /\ log[k].kind = "NoContainer"
                        /\ log[k].container_tag = items_to_extract[e].container_tag
    /\ pc = "done" =>
          /\ FilesNow = FilesOf(SelectSeq(items_to_extract, EntryPresent))
          /\ dirs = DirsOf(SelectSeq(items_to_extract, EntryPresent))

\* a complete run with a missing container between two entries that write
C4_Witness ==
    /\ pc = "done"
    /\ Len(items_to_extract) = 3
    /\ ~HasContainer(items_to_extract[2])
    /\ \E x \in Survivors : x[1] = items_to_extract[1] /\ WasWritten(x)
    /\ \E x \in Survivors : x[1] = items_to_extract[3] /\ WasWritten(x)
    /\ \E k \in 1..Len(log) : log[k].kind = "NoContainer"

\* C5: after a complete run the file at the path of a surviving item holds
\* the document of the last surviving item of its container that goes to
\* that path.
C5_LastWriteWins ==
    pc = "done" =>
        \A x \in Survivors :
            /\ PathOf(x) \in DOMAIN files
            /\ IsLastAtPath(x, items_to_extract) => files[PathOf(x)] = DocOf(x)

\* two different surviving items of one container at one path
C5_Witness ==
    /\ pc = "done"
    /\ \E x, y \in Survivors :
          /\ x[1] = y[1]
          /\ x[2] < y[2]
          /\ PathOf(x) = PathOf(y)
          /\ RawName(ItemAt(x)) # RawName(ItemAt(y))
          /\ DocOf(x) # DocOf(y)
          /\ files[PathOf(x)] = DocOf(y)

\* C6: every whole output document is the source root's tag and attributes
\* around one container with the source container's tag and attributes
\* around one item equal to the source item of that path; so is the
\* document the run has built last.
IsDocOfItemAt(content, path) ==
    /\ content.root.tag = tree.tag
    /\ content.root.attrib = tree.attrib
    /\ Len(content.root.children) = 1
    /\ \E x \in Survivors :
          /\ PathOf(x) = path
          /\ content.root.children[1].tag = ContainerOf(x[1]).tag
          /\ content.root.children[1].attrib = ContainerOf(x[1]).attrib
          /\ content.root.children[1].children = << Strip(ItemAt(x)) >>

C6_OutputShape ==
    /\ \A p \in DOMAIN files :
          files[p].complete => IsDocOfItemAt(files[p], p)
    /\ \A p, q \in DOMAIN files :
          (files[p].complete /\ files[q].complete) =>
              /\ files[p].root.tag = files[q].root.tag
              /\ files[p].root.attrib = files[q].root.attrib
    /\ new_root.id # 0 => \E x \in Survivors : Strip(new_root) = DocOf(x).root

\* files of two containers, one of an item with a subtree
C6_Witness ==
    /\ pc = "done"
    /\ \E p, q \in DOMAIN files :
          /\ files[p].complete
          /\ files[q].complete
          /\ files[p].root.children[1].tag # files[q].root.children[1].tag
          /\ files[p].root.children[1].children[1].children # <<>>

\* C7 as stated: the raw name of an item is its Name attribute, and the
\* sentinel when the attribute is absent or empty.
HasName(it) == \E p \in it.attrib : p[1] = "Name"

NameValue(it) == (CHOOSE p \in it.attrib : p[1] = "Name")[2]

C7_SentinelWhenAbsentOrEmpty ==
    item.id # 0 =>
        item_name = IF ~HasName(item) \/ NameValue(item) = <<>>
                    THEN UnnamedItem
                    ELSE NameValue(item)

\* C8: the sanitized name of an item is its raw name with each forbidden
\* character replaced by "_", one for one, and sanitizing it again leaves
\* it as it is.
C8_SanitizeIdempotent ==
    /\ Sub(safe_item_name) = safe_item_name
    /\ new_root.id # 0 =>
          /\ safe_item_name = SafeName(new_root.children[1].children[1])
          /\ Sub(Sub(RawName(new_root.children[1].children[1]))) = safe_item_name

\* a name of two forbidden characters has been sanitized
C8_Witness ==
    /\ new_root.id # 0
    /\ Len(item_name) = 2
    /\ item_name[1] \in Forbidden
    /\ item_name[2] \in Forbidden
    /\ item_name[1] # item_name[2]
    /\ safe_item_name = <<"_", "_">>

\* C9: no step changes the source tree, and no node of the document built
\* for an item is a node of the source tree.
C9_SourceReadOnly ==
    /\ [][tree' = tree]_vars
    /\ [](Ids(new_root) \cap Ids(tree) = {})

\* a complete run that skipped an entry, skipped an item and wrote an item
\* with a subtree
C9_Witness ==
    /\ pc = "done"
    /\ \E k \in 1..Len(log) : log[k].kind = "NoContainer"
    /\ \E k \in 1..Len(log) : log[k].kind = "Skipping"
    /\ new_root.id # 0
    /\ new_root.children[1].children[1].children # <<>>
    /\ Cardinality(Ids(new_root)) = 4

\* C10: every file lies at outputRoot/<itemTag>/<name>.xml for the item tag
\* of the entry that wrote it, its name free of forbidden characters, and
\* every directory below the base is the item tag of an entry whose
\* container exists and holds an item of that tag.
EndsWithXml(seg) ==
    /\ Len(seg) >= 4
    /\ SubSeq(seg, Len(seg) - 3, Len(seg)) = <<".", "x", "m", "l">>

====
